---- MODULE Spec2Model ----
(***************************************************************************)
(* Model of github.com/lukasngl/opt: the generic option type opt.T[V]      *)
(* (src/opt.go), its constructors, accessors, JSON and SQL adapters.       *)
(*                                                                         *)
(* A behaviour fixes one instantiation V of the type parameter and then    *)
(* applies the package's operations to its option variables: one, a, or    *)
(* two, a and b.                                                           *)
(* Values of pointer type are addresses into a small heap, so that the     *)
(* allocations done by the decoders and pointer identity are visible.      *)
(***************************************************************************)
EXTENDS Integers, FiniteSets, Sequences, TLC

VARIABLES V, heap, o, last, failed

vars == <<V, heap, o, last, failed>>

(***************************************************************************)
(* Bounds of the model.                                                    *)
(***************************************************************************)
MaxInt == 1
MaxAddr == 3

Ints == 0..MaxInt
Addrs == 1..MaxAddr

\* The contents of the string field Test.
Strings == {"", "x"}

\* The option variables of a behaviour: DOMAIN o.
Slots == DOMAIN o

(***************************************************************************)
(* The instantiations of V.                                                *)
(*   int, struct{Test; Test2}   value types without an IsZero method       *)
(*   *int                       pointer type without an IsZero method      *)
(*   opt.T[int]                 value type with IsZero (a nested option)   *)
(*   time.Time, *time.Time      value / pointer type with IsZero           *)
(*   any                        interface type without IsZero              *)
(*   isZeroer                   interface type with IsZero                 *)
(***************************************************************************)
CodecTypes == {"int", "struct", "*int", "opt.T[int]"}
ZeroableTypes == CodecTypes \cup {"time.Time", "*time.Time", "any", "isZeroer"}

IsInterfaceType(T) == T \in {"any", "isZeroer"}
IsPointerType(T) == T \in {"*int", "*time.Time"}

\* The nil pointer; addresses are 1..MaxAddr.
NIL == 0

\* The nil interface value; a non-nil one carries its dynamic type.
IfaceNil == [dyn |-> "nil", val |-> 0]
Iface(T, v) == [dyn |-> T, val |-> v]

\* time.Time, reduced to its instant and its location pointer.
Times == [sec : {0, 1}, loc : {"UTC", "XTC"}]

\* opt.T[int] as a wrapped value: what the constructors can produce.
InnerOpts == {[v |-> 0, present |-> FALSE]} \cup {[v |-> n, present |-> TRUE] : n \in Ints}

\* The type of the objects the heap holds under instantiation T.
HeapElems(T) ==
    CASE T \in {"*int", "any"} -> Ints
      [] T \in {"*time.Time", "isZeroer"} -> Times
      [] OTHER -> {}

\* The values of type T a caller can pass, given the heap h.
Values(T, h) ==
    CASE T = "int" -> Ints
      [] T = "struct" -> [Test : Strings, Test2 : Ints]
      [] T = "*int" -> {NIL} \cup DOMAIN h
      [] T = "*time.Time" -> {NIL} \cup DOMAIN h
      [] T = "opt.T[int]" -> InnerOpts
      [] T = "time.Time" -> Times
      [] T = "any" -> {IfaceNil} \cup {Iface("int", n) : n \in Ints}
                          \cup {Iface("*int", p) : p \in {NIL} \cup DOMAIN h}
      [] T = "isZeroer" -> {IfaceNil} \cup {Iface("time.Time", t) : t \in Times}
                          \cup {Iface("*time.Time", p) : p \in {NIL} \cup DOMAIN h}
                          \cup {Iface("opt.T[int]", i) : i \in InnerOpts}

\* The zero value of type T.
Zero(T) ==
    CASE T = "int" -> 0
      [] T = "struct" -> [Test |-> "", Test2 |-> 0]
      [] T \in {"*int", "*time.Time"} -> NIL
      [] T = "opt.T[int]" -> [v |-> 0, present |-> FALSE]
      [] T = "time.Time" -> [sec |-> 0, loc |-> "UTC"]
      [] T \in {"any", "isZeroer"} -> IfaceNil

(***************************************************************************)
(* The heap: a function from the allocated addresses to their objects.     *)
(***************************************************************************)
EmptyHeap == [a \in {} |-> 0]

CanAlloc(h) == Addrs \ DOMAIN h # {}

NewAddr(h) == CHOOSE a \in Addrs \ DOMAIN h : \A c \in Addrs \ DOMAIN h : a <= c

Store(h, a, x) == [c \in DOMAIN h \cup {a} |-> IF c = a THEN x ELSE h[c]]

(***************************************************************************)
(* Constructors and accessors.                                             *)
(***************************************************************************)
None(T) == [v |-> Zero(T), present |-> FALSE]

Some(value) == [v |-> value, present |-> TRUE]

\* IsZero with the negation dropped.
IsZeroFlipped(t) == t.present

IsZero(t) == ~t.present

IsEmpty(t) == ~t.present

IsPresent(t) == t.present

Unwrap(t) == <<t.v, t.present>>

\* A pointer *V is nil or refers to its own copy of a V.
NilPtr == [nil |-> TRUE]
Ref(value) == [nil |-> FALSE, pointee |-> value]

FromNillable(T, value) ==
    IF value.nil THEN None(T) ELSE Some(value.pointee)

ToNillable(t) ==
    LET value == Unwrap(t)[1]
        present == Unwrap(t)[2]
    IN  IF ~present THEN NilPtr ELSE Ref(value)

\* The outcome of a call that may panic.
Panic == [panic |-> TRUE]
Return(x) == [panic |-> FALSE, value |-> x]

\* Must without the presence check.
MustUnchecked(t) == Return(Unwrap(t)[1])

Must(t) ==
    LET value == Unwrap(t)[1]
        present == Unwrap(t)[2]
    IN  IF ~present THEN Panic ELSE Return(value)

OrElse(t, defaultValue) ==
    LET value == Unwrap(t)[1]
        present == Unwrap(t)[2]
    IN  IF ~present THEN defaultValue ELSE value

OrZero(t) == Unwrap(t)[1]

(***************************************************************************)
(* Zeroness (isZero) and FromZeroable.                                     *)
(***************************************************************************)
\* reflect.TypeFor[V]().Implements(isZeroer): V's method set has IsZero.
Implements(T) == T \in {"opt.T[int]", "time.Time", "*time.Time", "isZeroer"}

\* reflect.ValueOf(value): an interface is unpacked to its dynamic value,
\* and the nil interface gives the invalid reflect.Value.
rvType(T, value) == IF IsInterfaceType(T) THEN value.dyn ELSE T
rvVal(T, value) == IF IsInterfaceType(T) THEN value.val ELSE value

rvKind(T, value) ==
    CASE rvType(T, value) = "nil" -> "Invalid"
      [] IsPointerType(rvType(T, value)) -> "Pointer"
      [] rvType(T, value) = "int" -> "Int"
      [] OTHER -> "Struct"

\* The IsZero method of dynamic type D, called on x.
MethodIsZero(D, x, h) ==
    CASE D = "time.Time" -> x.sec = 0
      [] D = "*time.Time" -> h[x].sec = 0
      [] D = "opt.T[int]" -> IsZero(x)

\* reflect.Value.IsZero on a valid value of dynamic type D.
rvIsZero(D, x) ==
    CASE D = "int" -> x = 0
      [] D = "struct" -> x.Test = "" /\ x.Test2 = 0
      [] D \in {"*int", "*time.Time"} -> x = NIL
      [] D = "opt.T[int]" -> x.v = 0 /\ x.present = FALSE
      [] D = "time.Time" -> x.sec = 0 /\ x.loc = "UTC"

\* Both rv.Interface() and rv.IsZero() panic on the invalid reflect.Value.
isZero(T, value, h) ==
    IF Implements(T)
    THEN IF rvKind(T, value) = "Pointer" /\ rvVal(T, value) = NIL
         THEN Return(TRUE)
         ELSE IF rvKind(T, value) = "Invalid"
              THEN Panic
              ELSE Return(MethodIsZero(rvType(T, value), rvVal(T, value), h))
    ELSE IF rvKind(T, value) = "Invalid"
         THEN Panic
         ELSE Return(rvIsZero(rvType(T, value), rvVal(T, value)))

FromZeroable(T, value, h) ==
    LET z == isZero(T, value, h)
    IN  IF z.panic THEN Panic
        ELSE IF z.value THEN Return(None(T)) ELSE Return(Some(value))

(***************************************************************************)
(* JSON.  A document is one of: the null token, the null token with        *)
(* surrounding white space, a number, a string, an object with the fields  *)
(* Test and Test2, such an object whose Test2 holds a string, or malformed *)
(* text.                                                                   *)
(***************************************************************************)
Token(k, str, num) == [k |-> k, str |-> str, num |-> num]
Null == Token("null", "", 0)
PaddedNull == Token("padded-null", "", 0)
Num(n) == Token("num", "", n)
Str == Token("str", "x", 0)
Obj(a, b) == Token("obj", a, b)
ObjMistyped(a) == Token("obj-mistyped", a, 0)
Malformed == Token("malformed", "", 0)

Documents ==
    {Null, PaddedNull, Str, Malformed} \cup {Num(n) : n \in Ints}
        \cup {Obj(a, b) : a \in Strings, b \in Ints} \cup {ObjMistyped(a) : a \in Strings}

NoErr == "nil"

RECURSIVE jsonMarshal(_, _, _)
RECURSIVE jsonUnmarshal(_, _, _, _)

\* T.MarshalJSON: the pair (data, err).
MarshalJSON(T, t, h) ==
    IF ~t.present
    THEN [data |-> Null, err |-> NoErr]
    ELSE jsonMarshal(T, t.v, h)

\* json.Marshal(value) for a value of type T.
jsonMarshal(T, value, h) ==
    CASE T = "int" -> [data |-> Num(value), err |-> NoErr]
      [] T = "struct" -> [data |-> Obj(value.Test, value.Test2), err |-> NoErr]
      [] T = "*int" -> [data |-> IF value = NIL THEN Null ELSE Num(h[value]), err |-> NoErr]
      [] T = "opt.T[int]" -> MarshalJSON("int", value, h)

\* The outcome of a decoder: the destination, the error and the heap.
Decoded(x, err, h) == [v |-> x, err |-> err, heap |-> h]

\* UnmarshalJSON that decodes the payload and leaves the discriminant alone.
UnmarshalJSONKeepsFlag(T, t, data, h) ==
    IF data = Null
    THEN [t |-> [t EXCEPT !.present = FALSE], err |-> NoErr, heap |-> h]
    ELSE LET r == jsonUnmarshal(T, data, t.v, h)
         IN  [t |-> [t EXCEPT !.v = r.v], err |-> r.err, heap |-> r.heap]

\* T.UnmarshalJSON on receiver t: the receiver afterwards, the error, the heap.
UnmarshalJSON(T, t, data, h) ==
    IF data = Null
    THEN [t |-> [t EXCEPT !.present = FALSE], err |-> NoErr, heap |-> h]
    ELSE LET r == jsonUnmarshal(T, data, t.v, h)
         IN  IF r.err # NoErr
             THEN [t |-> [t EXCEPT !.v = r.v], err |-> r.err, heap |-> r.heap]
             ELSE [t |-> [v |-> r.v, present |-> TRUE], err |-> NoErr, heap |-> r.heap]

\* json.Unmarshal(data, &cur) for cur of type T.  Malformed text is rejected
\* before anything is written; a document of the wrong JSON type is an error
\* raised after the decoder has allocated a nil pointer destination and after
\* it has stored the well-typed fields of an object; JSON null leaves a value
\* type untouched and sets a pointer to nil.
jsonUnmarshal(T, data, cur, h) ==
    IF data.k = "malformed" THEN Decoded(cur, "syntax", h)
    ELSE CASE T = "int" ->
                CASE data.k = "num" -> Decoded(data.num, NoErr, h)
                  [] data.k \in {"null", "padded-null"} -> Decoded(cur, NoErr, h)
                  [] OTHER -> Decoded(cur, "type", h)
           [] T = "struct" ->
                CASE data.k = "obj" -> Decoded([Test |-> data.str, Test2 |-> data.num], NoErr, h)
                  [] data.k = "obj-mistyped" -> Decoded([cur EXCEPT !.Test = data.str], "type", h)
                  [] data.k \in {"null", "padded-null"} -> Decoded(cur, NoErr, h)
                  [] OTHER -> Decoded(cur, "type", h)
           [] T = "*int" ->
                CASE data.k \in {"null", "padded-null"} -> Decoded(NIL, NoErr, h)
                  [] data.k = "num" ->
                        IF cur = NIL
                        THEN Decoded(NewAddr(h), NoErr, Store(h, NewAddr(h), data.num))
                        ELSE Decoded(cur, NoErr, Store(h, cur, data.num))
                  [] OTHER ->
                        IF cur = NIL
                        THEN Decoded(NewAddr(h), "type", Store(h, NewAddr(h), 0))
                        ELSE Decoded(cur, "type", h)
           [] T = "opt.T[int]" ->
                LET item == IF data.k = "padded-null" THEN Null ELSE data
                    r == UnmarshalJSON("int", cur, item, h)
                IN  Decoded(r.t, r.err, r.heap)

\* Whether decoding data into cur allocates a new object.
jsonAllocates(T, data, cur) ==
    T = "*int" /\ cur = NIL /\ data.k \in {"num", "str", "obj", "obj-mistyped"}

(***************************************************************************)
(* database/sql.  A source is nil (a NULL column), an int64, a text that   *)
(* is no number, or a value of some Go type t (assignable to a destination *)
(* of that type only).                                                     *)
(***************************************************************************)
Src(k, t, x) == [k |-> k, t |-> t, x |-> x]
SrcNil == Src("nil", "nil", 0)
SrcInt(n) == Src("int64", "int64", n)
SrcText == Src("text", "string", 0)
SrcSame(T, value) == Src("same", T, value)

Sources(T, h) ==
    {SrcNil, SrcText} \cup {SrcInt(n) : n \in Ints}
        \cup {SrcSame(T, value) : value \in Values(T, h)}

RECURSIVE convertAssign(_, _, _)

\* sql.Null[V].Scan on a fresh sql.Null[V]: the fields V and Valid, the error.
NullScan(T, src, h) ==
    IF src.k = "nil"
    THEN [V |-> Zero(T), Valid |-> FALSE, err |-> NoErr, heap |-> h]
    ELSE LET r == convertAssign(T, src, h)
         IN  [V |-> r.v, Valid |-> TRUE, err |-> r.err, heap |-> r.heap]

\* Scan that clears the discriminant on NULL and keeps the old payload.
ScanKeepsPayload(T, t, src, h) ==
    LET null == NullScan(T, src, h)
    IN  [t |-> [v |-> IF null.Valid THEN null.V ELSE t.v, present |-> null.Valid],
         err |-> null.err, heap |-> null.heap]

\* T.Scan: the receiver afterwards, the error, the heap.  The receiver's
\* former fields are not read.
Scan(T, t, src, h) ==
    LET null == NullScan(T, src, h)
    IN  [t |-> [v |-> null.V, present |-> null.Valid], err |-> null.err, heap |-> null.heap]

\* convertAssign(&dest, src) for a zero dest of type T and a non-nil src.  A
\* pointer destination is allocated before the conversion is tried; a
\* destination that is a Scanner (opt.T[int]) has its own Scan called.
convertAssign(T, src, h) ==
    CASE T = "int" ->
            IF src.k = "int64" \/ (src.k = "same" /\ src.t = "int")
            THEN Decoded(src.x, NoErr, h)
            ELSE Decoded(0, "convert", h)
      [] T = "struct" ->
            IF src.k = "same" /\ src.t = "struct"
            THEN Decoded(src.x, NoErr, h)
            ELSE Decoded(Zero("struct"), "unsupported", h)
      [] T = "*int" ->
            CASE src.k = "same" /\ src.t = "*int" -> Decoded(src.x, NoErr, h)
              [] src.k = "int64" -> Decoded(NewAddr(h), NoErr, Store(h, NewAddr(h), src.x))
              [] OTHER -> Decoded(NewAddr(h), "convert", Store(h, NewAddr(h), 0))
      [] T = "opt.T[int]" ->
            LET r == Scan("int", Zero("opt.T[int]"), src, h)
            IN  Decoded(r.t, r.err, r.heap)

\* Whether scanning src allocates a new object.
scanAllocates(T, src) ==
    T = "*int" /\ src.k \in {"int64", "text"}

\* sql.Null[V].Value: the driver value (the NULL column or the value), the error.
\* The driver's own representation of a value (an int as int64) is not told
\* apart from the value.
SqlNull == [null |-> TRUE]
SqlValue(x) == [null |-> FALSE, value |-> x]

NullValue(n) ==
    IF ~n.Valid THEN [value |-> SqlNull, err |-> NoErr]
    ELSE [value |-> SqlValue(n.V), err |-> NoErr]

Value(t) == NullValue([V |-> t.v, Valid |-> t.present])

(***************************************************************************)
(* The tests' compositions.                                                *)
(***************************************************************************)
\* TestMarshalIdentity: var de; data := Marshal(ser); Unmarshal(data, &de).
MarshalIdentity(T, ser, h) ==
    LET m == MarshalJSON(T, ser, h)
    IN  UnmarshalJSON(T, None(T), m.data, h)

\* TestFromNillableIdentity: FromNillable(input.ToNillable()).
NillableIdentity(T, input) == FromNillable(T, ToNillable(input))

\* typedTest: json.Marshal of struct{ Value opt.T[V] `json:"value,omitzero"` }.
\* The encoder drops the field when its IsZero method reports true.
MarshalOmitZero(T, optValue, h) ==
    IF IsZero(optValue)
    THEN [omitted |-> TRUE]
    ELSE [omitted |-> FALSE, value |-> MarshalJSON(T, optValue, h).data]

(***************************************************************************)
(* The state machine.  V is the instantiation, o[s] the option variable s, *)
(* heap the objects pointers refer to, and last the latest call: its       *)
(* name, the variable it was made on, its argument, the variable's value   *)
(* before the call and what the call returned.  failed is a history        *)
(* variable: the option variables that were the receiver of a call that    *)
(* returned an error and have not been assigned since.                     *)
(***************************************************************************)
Call(op, s, arg, ret) ==
    [op |-> op, slot |-> s, arg |-> arg, before |-> o[s], ret |-> ret]

NoArg == "-"

\* The objects the caller holds pointers to when the behaviour starts.
InitHeaps(T) ==
    IF HeapElems(T) = {} THEN {EmptyHeap}
    ELSE {Store(EmptyHeap, 1, x) : x \in HeapElems(T)}

\* var a, b opt.T[V]
InitWith(Types, variables) ==
    /\ V \in Types
    /\ heap \in InitHeaps(V)
    /\ o = [s \in variables |-> None(V)]
    /\ last = [op |-> "init", slot |-> "a", arg |-> NoArg, before |-> None(V), ret |-> NoArg]
    /\ failed = {}

Init == InitWith(CodecTypes, {"a"})

\* The pointers *V a caller can pass.
Pointers(T, h) == {NilPtr} \cup {Ref(value) : value \in Values(T, h)}

\* s = opt.None[V]()
CallNone ==
    \E s \in Slots :
        /\ o' = [o EXCEPT ![s] = None(V)]
        /\ last' = Call("None", s, NoArg, None(V))
        /\ failed' = failed \ {s}
        /\ UNCHANGED <<V, heap>>

\* s = opt.Some(value)
CallSome ==
    \E s \in Slots : \E value \in Values(V, heap) :
        /\ o' = [o EXCEPT ![s] = Some(value)]
        /\ last' = Call("Some", s, value, Some(value))
        /\ failed' = failed \ {s}
        /\ UNCHANGED <<V, heap>>

\* s = opt.FromNillable(p)
CallFromNillable ==
    \E s \in Slots : \E p \in Pointers(V, heap) :
        /\ o' = [o EXCEPT ![s] = FromNillable(V, p)]
        /\ last' = Call("FromNillable", s, p, FromNillable(V, p))
        /\ failed' = failed \ {s}
        /\ UNCHANGED <<V, heap>>

\* s = opt.FromZeroable(value); a panic leaves s as it was
CallFromZeroable ==
    \E s \in Slots : \E value \in Values(V, heap) :
        LET r == FromZeroable(V, value, heap)
        IN  /\ o' = IF r.panic THEN o ELSE [o EXCEPT ![s] = r.value]
            /\ last' = Call("FromZeroable", s, value, r)
            /\ failed' = IF r.panic THEN failed ELSE failed \ {s}
            /\ UNCHANGED <<V, heap>>

\* err = s.UnmarshalJSON(data)
CallUnmarshalJSON ==
    \E s \in Slots : \E data \in Documents :
        /\ jsonAllocates(V, data, o[s].v) => CanAlloc(heap)
        /\ LET r == UnmarshalJSON(V, o[s], data, heap)
           IN  /\ o' = [o EXCEPT ![s] = r.t]
               /\ heap' = r.heap
               /\ last' = Call("UnmarshalJSON", s, data, r.err)
               /\ failed' = IF r.err # NoErr THEN failed \cup {s} ELSE failed
        /\ UNCHANGED V

\* err = s.Scan(src)
CallScan ==
    \E s \in Slots : \E src \in Sources(V, heap) :
        /\ scanAllocates(V, src) => CanAlloc(heap)
        /\ LET r == Scan(V, o[s], src, heap)
           IN  /\ o' = [o EXCEPT ![s] = r.t]
               /\ heap' = r.heap
               /\ last' = Call("Scan", s, src, r.err)
               /\ failed' = IF r.err # NoErr THEN failed \cup {s} ELSE failed \ {s}
        /\ UNCHANGED V

\* The calls on a value receiver: they return something and change nothing.
CallIsZero ==
    \E s \in Slots :
        /\ last' = Call("IsZero", s, NoArg, IsZero(o[s]))
        /\ UNCHANGED <<V, heap, o, failed>>

CallIsEmpty ==
    \E s \in Slots :
        /\ last' = Call("IsEmpty", s, NoArg, IsEmpty(o[s]))
        /\ UNCHANGED <<V, heap, o, failed>>

CallIsPresent ==
    \E s \in Slots :
        /\ last' = Call("IsPresent", s, NoArg, IsPresent(o[s]))
        /\ UNCHANGED <<V, heap, o, failed>>

CallUnwrap ==
    \E s \in Slots :
        /\ last' = Call("Unwrap", s, NoArg, Unwrap(o[s]))
        /\ UNCHANGED <<V, heap, o, failed>>

CallMust ==
    \E s \in Slots :
        /\ last' = Call("Must", s, NoArg, Must(o[s]))
        /\ UNCHANGED <<V, heap, o, failed>>

CallOrElse ==
    \E s \in Slots : \E defaultValue \in Values(V, heap) :
        /\ last' = Call("OrElse", s, defaultValue, OrElse(o[s], defaultValue))
        /\ UNCHANGED <<V, heap, o, failed>>

CallOrZero ==
    \E s \in Slots :
        /\ last' = Call("OrZero", s, NoArg, OrZero(o[s]))
        /\ UNCHANGED <<V, heap, o, failed>>

CallToNillable ==
    \E s \in Slots :
        /\ last' = Call("ToNillable", s, NoArg, ToNillable(o[s]))
        /\ UNCHANGED <<V, heap, o, failed>>

CallMarshalJSON ==
    \E s \in Slots :
        /\ last' = Call("MarshalJSON", s, NoArg, MarshalJSON(V, o[s], heap))
        /\ UNCHANGED <<V, heap, o, failed>>

CallValue ==
    \E s \in Slots :
        /\ last' = Call("Value", s, NoArg, Value(o[s]))
        /\ UNCHANGED <<V, heap, o, failed>>

\* The tests' compositions, applied to s.
CallMarshalIdentity ==
    \E s \in Slots :
        /\ jsonAllocates(V, MarshalJSON(V, o[s], heap).data, Zero(V)) => CanAlloc(heap)
        /\ LET r == MarshalIdentity(V, o[s], heap)
           IN  /\ heap' = r.heap
               /\ last' = Call("MarshalIdentity", s, NoArg, [de |-> r.t, err |-> r.err])
        /\ UNCHANGED <<V, o, failed>>

CallNillableIdentity ==
    \E s \in Slots :
        /\ last' = Call("NillableIdentity", s, NoArg, NillableIdentity(V, o[s]))
        /\ UNCHANGED <<V, heap, o, failed>>

CallMarshalOmitZero ==
    \E s \in Slots :
        /\ last' = Call("MarshalOmitZero", s, NoArg, MarshalOmitZero(V, o[s], heap))
        /\ UNCHANGED <<V, heap, o, failed>>

Construct ==
    \/ CallNone
    \/ CallSome
    \/ CallFromNillable
    \/ CallFromZeroable

Mutate ==
    \/ CallUnmarshalJSON
    \/ CallScan

Read ==
    \/ CallIsZero
    \/ CallIsEmpty
    \/ CallIsPresent
    \/ CallUnwrap
    \/ CallMust
    \/ CallOrElse
    \/ CallOrZero
    \/ CallToNillable
    \/ CallMarshalJSON
    \/ CallValue
    \/ CallMarshalIdentity
    \/ CallNillableIdentity
    \/ CallMarshalOmitZero

Next == Construct \/ Mutate \/ Read

Spec == Init /\ [][Next]_vars

\* Two option variables, built and mutated side by side.
InitPair == InitWith(CodecTypes, {"a", "b"})

NextPair == Construct \/ Mutate

SpecPair == InitPair /\ [][NextPair]_vars

\* FromZeroable alone, over every instantiation.
InitZeroable == InitWith(ZeroableTypes, {"a"})

NextZeroable == CallFromZeroable

SpecZeroable == InitZeroable /\ [][NextZeroable]_vars

(***************************************************************************)
(* Properties.                                                             *)
(***************************************************************************)
Absent(t) == ~t.present

\* A nil pointer, a nil interface, or an interface holding a nil pointer.
NullReference(T, value) ==
    \/ rvKind(T, value) = "Invalid"
    \/ rvKind(T, value) = "Pointer" /\ rvVal(T, value) = NIL

\* The option variables no call has returned an error on since they were
\* assigned: the ones whose contents a caller may rely on.
Sound == Slots \ failed

\* C1 (I1): in every reachable state an absent option holds the zero value
\* of V as its payload.  Stated for the options whose calls all succeeded,
\* which covers UnmarshalJSON of the null token into a present receiver.
C1_AbsentPayloadIsZero ==
    \A s \in Sound : Absent(o[s]) => o[s].v = Zero(V)

\* The value x encodes as the JSON null token: a nil pointer, or a nested
\* option that is absent.
EncodesAsNull(T, x) ==
    \/ T = "*int" /\ x = NIL
    \/ T = "opt.T[int]" /\ Absent(x)

\* y is what decoding the encoding of x into a zero V gives: x itself for a
\* value type, a pointer to an equal object for a pointer.
SameDecoded(T, x, y, h) ==
    IF T = "*int" THEN y # NIL /\ h[y] = h[x] ELSE y = x

\* C2 (P6) as stated, in the last of the cases it names: for a present x
\* whose value encodes as the null token, unmarshalling the marshalled x into
\* a fresh option succeeds and yields an option equal to x.
C2_RoundTripEqual ==
    last.op = "MarshalIdentity" /\ last.before.present
            /\ EncodesAsNull(V, last.before.v) =>
        last.ret.err = NoErr /\ last.ret.de = last.before

\* C2 as amended: the round trip succeeds; it yields None[V]() when x is absent
\* or x's value encodes as null, and otherwise a present option wrapping the
\* decoding of x's value.
C2_RoundTripUpToNull ==
    last.op = "MarshalIdentity" =>
        /\ last.ret.err = NoErr
        /\ IF Absent(last.before) \/ EncodesAsNull(V, last.before.v)
           THEN last.ret.de = None(V)
           ELSE /\ last.ret.de.present
                /\ SameDecoded(V, last.before.v, last.ret.de.v, heap)
        /\ (V # "*int" /\ last.before.present /\ ~EncodesAsNull(V, last.before.v)
                => last.ret.de = last.before)

\* A present option wrapping a non-zero value went through the round trip.
C2_Witness ==
    /\ last.op = "MarshalIdentity"
    /\ last.before.present
    /\ last.before.v # Zero(V)
    /\ last.ret.de = last.before

\* C3 (P5): IsZero, IsEmpty and the negation of IsPresent agree on every
\* option, Some(zero) is not zero, and the omitzero field is dropped exactly
\* when the option is absent.
C3_ZeroIsAbsent ==
    /\ \A s \in Slots :
          /\ IsZero(o[s]) = IsEmpty(o[s])
          /\ IsEmpty(o[s]) = ~IsPresent(o[s])
          /\ IsZero(o[s]) = Absent(o[s])
    /\ ~IsZero(Some(Zero(V)))
    /\ (last.op = "IsZero" => last.ret = Absent(last.before))
    /\ (last.op = "IsEmpty" => last.ret = Absent(last.before))
    /\ (last.op = "IsPresent" => last.ret = ~Absent(last.before))
    /\ (last.op = "MarshalOmitZero" => last.ret.omitted = Absent(last.before))

\* Some(zero(V)) was marshalled under omitzero and its field was kept.
C3_Witness ==
    /\ last.op = "MarshalOmitZero"
    /\ last.before = Some(Zero(V))
    /\ ~last.ret.omitted

\* Zeroness as C4 states it: with an IsZero method, a null reference or a
\* true IsZero(); without one, equality with zero(V).
StatedZero(T, value, h) ==
    IF Implements(T)
    THEN NullReference(T, value) \/ MethodIsZero(rvType(T, value), rvVal(T, value), h)
    ELSE value = Zero(T)

\* C4 (P7): FromZeroable(v) is absent exactly when v is zero in the stated
\* sense, and Some(v) otherwise.
C4_FromZeroableRule ==
    last.op = "FromZeroable" =>
        /\ ~last.ret.panic
        /\ last.ret.value =
              IF StatedZero(V, last.arg, heap) THEN None(V) ELSE Some(last.arg)

\* C5 (P4): FromNillable(x.ToNillable()) equals x, for every reachable x
\* whose calls all succeeded; ToNillable is nil exactly for an absent x,
\* FromNillable is absent exactly for a nil pointer.
C5_PointerRoundTrip ==
    /\ last.op = "NillableIdentity" /\ last.slot \in Sound => last.ret = last.before
    /\ last.op = "ToNillable" => (last.ret.nil <=> Absent(last.before))
    /\ last.op = "FromNillable" => (Absent(last.ret) <=> last.arg.nil)

\* C6 (P3/I2): two reachable options (whose calls all succeeded) compare
\* equal field by field exactly when both are absent, or both are present
\* with equal wrapped values.
C6_Equality ==
    \A s \in Sound, t \in Sound :
        (o[s] = o[t]) <=>
            \/ Absent(o[s]) /\ Absent(o[t])
            \/ o[s].present /\ o[t].present /\ o[s].v = o[t].v

\* C7: OrZero returns the wrapped value of a present option and zero(V) for
\* an absent one, for every reachable option whose calls all succeeded.
C7_OrZero ==
    last.op = "OrZero" /\ last.slot \in Sound =>
        last.ret = IF last.before.present THEN last.before.v ELSE Zero(V)

\* C8 (P9): Must panics exactly on an absent option; on a present one it
\* returns the wrapped value; it leaves the option as it was.
C8_Must ==
    last.op = "Must" =>
        /\ last.ret.panic <=> Absent(last.before)
        /\ last.before.present => last.ret.value = last.before.v
        /\ o[last.slot] = last.before

\* Must was called on an absent option and panicked.
C8_Witness ==
    /\ last.op = "Must"
    /\ Absent(last.before)
    /\ last.ret.panic

\* x is the value a successful scan of the non-nil source src stores.
Scanned(T, src, x, h) ==
    CASE T = "*int" /\ src.k = "int64" -> x # NIL /\ h[x] = src.x
      [] T = "opt.T[int]" -> x = Some(src.x)
      [] OTHER -> x = src.x

\* C9: whatever the receiver was, a successful Scan of NULL leaves None[V](),
\* a successful Scan of a non-NULL source leaves Some of the scanned value, the
\* error is the delegate's; Value gives NULL for an absent option and the
\* wrapped value for a present one.
C9_ScanValue ==
    /\ last.op = "Scan" =>
          /\ last.ret = NoErr /\ last.arg = SrcNil => o[last.slot] = None(V)
          /\ last.ret = NoErr /\ last.arg # SrcNil =>
                /\ o[last.slot].present
                /\ Scanned(V, last.arg, o[last.slot].v, heap)
          /\ last.ret = NullScan(V, last.arg, EmptyHeap).err
    /\ last.op = "Value" =>
          /\ last.ret.err = NoErr
          /\ last.ret.value =
                IF Absent(last.before) THEN SqlNull ELSE SqlValue(last.before.v)

\* NULL was scanned into an option that held a non-zero value.
C9_Witness ==
    /\ last.op = "Scan"
    /\ last.arg = SrcNil
    /\ last.before.present
    /\ last.before.v # Zero(V)
    /\ o[last.slot] = None(V)

\* C10: FromZeroable of a null reference returns the absent option and does
\* not panic.
C10_NullReferenceIsAbsent ==
    last.op = "FromZeroable" /\ NullReference(V, last.arg) =>
        ~last.ret.panic /\ last.ret.value = None(V)

====
